---- MODULE Spec2Model ----
(***************************************************************************)
(* GeoPlugin: the YASR visualisation plugin of src/unnamed/part_001 (the   *)
(* datatype-driven variant).  The state is one plugin instance (its        *)
(* geometryColumns, container, map and Results layer group), the host's    *)
(* current result set and the pending setTimeout callbacks.  The actions   *)
(* are the host replacing the result set, canHandleResults(), draw() and   *)
(* the firing of a deferred callback.                                      *)
(*                                                                         *)
(* A result set is the sequence yasr.results.json.results.bindings; a row  *)
(* binds every column of ColumnOrder to a typed value [value, datatype]    *)
(* (an absent datatype is "", falsy like undefined).  A geometry is a      *)
(* record [kind, type, coordinates, text]: kind "object" for a geometry    *)
(* object, "null" for the parser's null, "string" for a value that is      *)
(* still text.  The Results layer group is modelled by what draw() hands   *)
(* to it: one layer per L.geoJson call, one entry per feature of the       *)
(* collection with the popup onEachFeature binds.                          *)
(***************************************************************************)
EXTENDS Integers, Sequences, FiniteSets, TLC

VARIABLES results, geometryColumns, container, map, lg, created, lgLayers,
          timers, ran, draws, calls, last, drawn

\* results          yasr.results.json.results.bindings (<<>>: no results)
\* geometryColumns  this.geometryColumns
\* container, map, lg   this.container, this.map, this.lg: NoObject, or the
\*                  ordinal of the initialisation that created the object
\* created          how many times the initialisation block has run
\* lgLayers         the layers of this.lg, in the order they were added
\* timers           the pending setTimeout callbacks, oldest first, each
\*                  with the draw that scheduled it and that draw's row count
\* ran              the draws whose callback has run, in the order they ran
\* draws            the number of draw() calls made
\* calls            the map calls (fitBounds, invalidateSize) of the last
\*                  handler that ran
\* last             the last handler that ran: its kind, for a draw or a
\*                  callback the draw and its row count, whether the draw
\*                  read the bindings the previous draw read, and for
\*                  canHandleResults the value it returned
\* drawn            the bindings the last draw() read
vars == <<results, geometryColumns, container, map, lg, created, lgLayers,
          timers, ran, draws, calls, last, drawn>>

\* ---------------------------------------------------------------- bounds
MaxRows == 2
MaxDraws == 2

\* ------------------------------------------------------------- constants
PopupMax == 120

WktLiteral == "http://www.opengis.net/ont/geosparql#wktLiteral"
VirtGeometry == "http://www.openlinksw.com/schemas/virtrdf#Geometry"
GeoJSONLiteral == "http://www.opengis.net/ont/geosparql#geoJSONLiteral"
XsdString == "http://www.w3.org/2001/XMLSchema#string"
NoDatatype == ""

\* Object.keys(conversions) with the WKT-literal key only (a table that
\* forgets the vendor and GeoJSON literals).
ConversionKeysWktOnly == <<WktLiteral>>

\* Object.keys(conversions), in insertion order.
ConversionKeys == <<WktLiteral, VirtGeometry, GeoJSONLiteral>>

\* ------------------------------------------------------------ geometries
Geometry(t, c) == [kind |-> "object", type |-> t, coordinates |-> c, text |-> ""]
NullGeometry == [kind |-> "null", type |-> "", coordinates |-> <<>>, text |-> ""]
RawText(s) == [kind |-> "string", type |-> "", coordinates |-> <<>>, text |-> s]
EmptyPoint == Geometry("Point", <<>>)

\* ------------------------------------------------------------ text tools
Digits == <<"0", "1", "2", "3", "4", "5", "6", "7", "8", "9">>
CharAt(s, i) == IF i >= 1 /\ i <= Len(s) THEN SubSeq(s, i, i) ELSE ""
IsDigit(c) == \E d \in 1..10 : Digits[d] = c
DigitValue(c) == (CHOOSE d \in 1..10 : Digits[d] = c) - 1

RECURSIVE ReadDigits(_, _, _, _)
ReadDigits(s, i, acc, cnt) ==
  IF IsDigit(CharAt(s, i))
  THEN ReadDigits(s, i + 1, acc * 10 + DigitValue(CharAt(s, i)), cnt + 1)
  ELSE [val |-> acc, next |-> i, count |-> cnt]

StartsWith(s, p) == Len(s) >= Len(p) /\ SubSeq(s, 1, Len(p)) = p

RECURSIVE Rep(_, _)
Rep(s, n) == IF n = 0 THEN "" ELSE s \o Rep(s, n - 1)

RECURSIVE Join(_, _)
Join(lines, sep) ==
  IF lines = <<>> THEN ""
  ELSE IF Len(lines) = 1 THEN lines[1]
  ELSE lines[1] \o sep \o Join(Tail(lines), sep)

\* wellknown's parse on the fragment POINT(<x> <y>) with natural-number
\* coordinates: the geometry object, or null when the text does not parse.
parseWKT(text) ==
  IF ~StartsWith(text, "POINT(") THEN NullGeometry
  ELSE LET x == ReadDigits(text, 7, 0, 0)
           y == ReadDigits(text, x.next + 1, 0, 0)
       IN IF /\ x.count > 0
             /\ CharAt(text, x.next) = " "
             /\ y.count > 0
             /\ CharAt(text, y.next) = ")"
             /\ y.next = Len(text)
          THEN Geometry("Point", <<x.val, y.val>>)
          ELSE NullGeometry

\* ----------------------------------------------------------- conversions
HasConversion(datatype) ==
  \E i \in 1..Len(ConversionKeys) : ConversionKeys[i] = datatype

\* conversions[datatype](value): parseWKT for the two WKT datatypes, the
\* identity (geojson) => geojson for the GeoJSON literal.
Convert(datatype, value) ==
  CASE datatype = WktLiteral -> parseWKT(value)
    [] datatype = VirtGeometry -> parseWKT(value)
    [] datatype = GeoJSONLiteral -> RawText(value)

\* ------------------------------------------------------------ result sets
\* Object.keys of a row: the columns in the order the host lists them.
ColumnOrder == <<"place", "geom", "alt">>
Cols == {ColumnOrder[i] : i \in 1..Len(ColumnOrder)}

Cell(v, d) == [value |-> v, datatype |-> d]

Text120 == Rep("ab", 60)
Text121 == Text120 \o "c"
GeoJSONPointText == "{\"type\":\"Point\",\"coordinates\":[1,2]}"

\* The rows the host delivers while the plugin is in use: one with two
\* geometry columns, one with no datatype the table knows.
HostRows ==
  { [place |-> Cell("Brussels", NoDatatype),
     geom |-> Cell("POINT(4 50)", WktLiteral),
     alt |-> Cell("POINT(1 2)", VirtGeometry)],
    [place |-> Cell(Text121, XsdString),
     geom |-> Cell("n/a", NoDatatype),
     alt |-> Cell("POINT(7 8)", XsdString)] }

\* The rows a result set may hold when the plugin is constructed.
PlaceCells == {Cell(Text120, NoDatatype), Cell(Text121, XsdString)}
GeomCells ==
  { Cell("POINT(4 50)", WktLiteral),
    Cell("POINT(4", WktLiteral),
    Cell(GeoJSONPointText, GeoJSONLiteral),
    Cell("{\"type\":", GeoJSONLiteral),
    Cell("POINT(7 8)", XsdString) }
AltCells == {Cell("POINT(1 2)", VirtGeometry), Cell("Liege", NoDatatype)}
WideRows ==
  { [place |-> p, geom |-> g, alt |-> a] :
      p \in PlaceCells, g \in GeomCells, a \in AltCells }

ResultSetsOver(rows) ==
  UNION { [1..n -> rows] : n \in 0..MaxRows }

HostResultSets == ResultSetsOver(HostRows)
WideResultSets == ResultSetsOver(WideRows)

\* --------------------------------------------------------- updateColumns
\* The descriptors {colName, datatype} of the first row's columns whose
\* datatype is truthy and a key of conversions; [] when there is no row.
updateColumns(bindings) ==
  IF bindings = <<>> THEN <<>>
  ELSE LET firstColumn == bindings[1]
           keep(k) == /\ firstColumn[k].datatype # NoDatatype
                      /\ HasConversion(firstColumn[k].datatype)
           kept == SelectSeq(ColumnOrder, keep)
       IN [i \in 1..Len(kept) |->
             [colName |-> kept[i], datatype |-> firstColumn[kept[i]].datatype]]

\* ---------------------------------------------------------- createGeojson
\* createGeojson that emits a feature only for the rows whose value converts.
createGeojsonSkipping(bindings, column) ==
  LET ok(item) == /\ HasConversion(item[column].datatype)
                  /\ Convert(item[column].datatype, item[column].value).kind # "null"
      rows == SelectSeq(bindings, ok)
  IN [type |-> "FeatureCollection",
      features |-> [i \in 1..Len(rows) |->
         [type |-> "Feature",
          properties |-> rows[i],
          geometry |-> Convert(rows[i][column].datatype, rows[i][column].value)]]]

createGeojson(bindings, column) ==
  [type |-> "FeatureCollection",
   features |-> [i \in 1..Len(bindings) |->
      LET item == bindings[i]
      IN [type |-> "Feature",
          properties |-> item,
          geometry |-> IF HasConversion(item[column].datatype)
                       THEN Convert(item[column].datatype, item[column].value)
                       ELSE EmptyPoint]]]

\* ------------------------------------------------------------------ popup
\* The popup value cut one character early (>= instead of >).
popupValueOffByOne(v) ==
  IF Len(v) >= PopupMax THEN SubSeq(v, 1, PopupMax) \o "..." ELSE v

\* p[k].value.length > 120 ? p[k].value.substring(0, 120) + '...' : p[k].value
popupValue(v) ==
  IF Len(v) > PopupMax THEN SubSeq(v, 1, PopupMax) \o "..." ELSE v

\* onEachFeature: one "<b>k:</b> value" line per key of the feature's
\* properties, joined by "<br>".
popupContent(p) ==
  Join([i \in 1..Len(ColumnOrder) |->
          "<b>" \o ColumnOrder[i] \o ":</b> " \o popupValue(p[ColumnOrder[i]].value)],
       "<br>")

\* L.geoJson(geojson, {pointToLayer, onEachFeature}): the layer built from
\* one feature collection, each feature with the popup bound to it.
geoJson(geojson) ==
  [i \in 1..Len(geojson.features) |->
     [feature |-> geojson.features[i],
      popup |-> popupContent(geojson.features[i].properties)]]

\* ------------------------------------------------------------- updateMap
NoObject == 0
NoOp == [op |-> "none", draw |-> 0, rows |-> 0, repeat |-> FALSE, ret |-> "none"]

\* An initialisation guard that never finds the container.
NeedsInitAlways(c) == TRUE

\* if (!this.container)
NeedsInit(c) == c = NoObject

\* A clearLayers that leaves the group as it was.
clearLayersKeeping(layers) == layers

\* this.lg.clearLayers()
clearLayers(layers) == <<>>

\* An addLayer that replaces the group's content by the new layer.
addLayerReplacing(layers, layer) == <<layer>>

\* this.lg.addLayer(newLayers)
addLayer(layers, layer) == Append(layers, layer)

\* A setTimeout that first clears the callbacks still pending.
setTimeoutCancelling(queue, callback) == <<callback>>

\* setTimeout(callback, 100): callbacks of equal delay run in the order
\* they were scheduled.
setTimeout(queue, callback) == Append(queue, callback)

\* The map calls of the deferred callback.
DeferredCalls == <<"invalidateSize", "fitBounds">>

\* The for-loop of updateMap over this.geometryColumns: each column's
\* collection becomes a layer of the group, and the map is fitted to the
\* group's bounds when the collection has features.
RECURSIVE DrawColumns(_, _, _)
DrawColumns(cols, bindings, acc) ==
  IF cols = <<>> THEN acc
  ELSE LET geojson == createGeojson(bindings, Head(cols).colName)
           fit == IF Len(geojson.features) > 0 THEN <<"fitBounds">> ELSE <<>>
       IN DrawColumns(Tail(cols), bindings,
                      [layers |-> addLayer(acc.layers, geoJson(geojson)),
                       calls |-> acc.calls \o fit])

\* ---------------------------------------------------------------- actions
\* The host replaces yasr.results (a new query's results).
SetResults ==
  \E rs \in HostResultSets :
    /\ results' = rs
    /\ calls' = <<>>
    /\ last' = [NoOp EXCEPT !.op = "set"]
    /\ UNCHANGED <<geometryColumns, container, map, lg, created, lgLayers,
                   timers, ran, draws, drawn>>

\* canHandleResults()
CanHandleResults ==
  /\ geometryColumns' = updateColumns(results)
  /\ calls' = <<>>
  /\ last' = [NoOp EXCEPT !.op = "probe",
                          !.ret = IF Len(geometryColumns') > 0 THEN "true" ELSE "false"]
  /\ UNCHANGED <<results, container, map, lg, created, lgLayers, timers, ran,
                 draws, drawn>>

\* draw(): updateColumns() then updateMap().
Draw ==
  /\ draws < MaxDraws
  /\ LET cols == updateColumns(results)
         init == NeedsInit(container)
         out == DrawColumns(cols, results,
                            [layers |-> clearLayers(lgLayers), calls |-> <<>>])
     IN /\ geometryColumns' = cols
        /\ created' = IF init THEN created + 1 ELSE created
        /\ container' = IF init THEN created + 1 ELSE container
        /\ map' = IF init THEN created + 1 ELSE map
        /\ lg' = IF init THEN created + 1 ELSE lg
        /\ lgLayers' = out.layers
        /\ calls' = out.calls
        /\ timers' = setTimeout(timers, [draw |-> draws + 1, rows |-> Len(results)])
  /\ draws' = draws + 1
  /\ drawn' = results
  /\ last' = [NoOp EXCEPT !.op = "draw", !.draw = draws + 1, !.rows = Len(results),
                          !.repeat = draws > 0 /\ drawn = results]
  /\ UNCHANGED <<results, ran>>

\* The callback of one draw's setTimeout runs.
TimerFire ==
  /\ timers # <<>>
  /\ calls' = DeferredCalls
  /\ ran' = Append(ran, Head(timers).draw)
  /\ timers' = Tail(timers)
  /\ last' = [NoOp EXCEPT !.op = "timer", !.draw = Head(timers).draw,
                          !.rows = Head(timers).rows]
  /\ UNCHANGED <<results, geometryColumns, container, map, lg, created,
                 lgLayers, draws, drawn>>

\* new GeoPlugin(yasr) on a host that holds the bindings rs.
Constructed(rs) ==
  /\ results = rs
  /\ geometryColumns = updateColumns(rs)
  /\ container = NoObject
  /\ map = NoObject
  /\ lg = NoObject
  /\ created = 0
  /\ lgLayers = <<>>
  /\ timers = <<>>
  /\ ran = <<>>
  /\ draws = 0
  /\ calls = <<>>
  /\ last = NoOp
  /\ drawn = <<>>

Init == Constructed(<<>>)
InitWide == \E rs \in WideResultSets : Constructed(rs)

Next == SetResults \/ CanHandleResults \/ Draw \/ TimerFire
NextWide == CanHandleResults \/ Draw \/ TimerFire

Spec == Init /\ [][Next]_vars
SpecWide == InitWide /\ [][NextWide]_vars
FairSpec == Init /\ [][Next]_vars /\ WF_vars(TimerFire)

\* ----------------------------------------------------------------- claims
Recognized == {WktLiteral, VirtGeometry, GeoJSONLiteral}

\* A column's datatype is the one its value carries in the first row.
RecognizedColumns(rs) ==
  IF rs = <<>> THEN <<>>
  ELSE LET known(c) == rs[1][c].datatype \in Recognized
       IN SelectSeq(ColumnOrder, known)

LayerFeatures(layer) == [i \in 1..Len(layer) |-> layer[i].feature]
Geometries(layers) ==
  [k \in 1..Len(layers) |->
     [i \in 1..Len(layers[k]) |-> layers[k][i].feature.geometry]]
Called(name) == \E i \in 1..Len(calls) : calls[i] = name
AfterDraw == last.op = "draw"

C2_GroupIsCurrentCollections ==
  AfterDraw =>
    LET columns == RecognizedColumns(results)
    IN /\ Len(lgLayers) = Len(columns)
       /\ \A k \in 1..Len(columns) :
            LayerFeatures(lgLayers[k]) = createGeojson(results, columns[k]).features

C2_Witness ==
  /\ AfterDraw
  /\ draws = 2
  /\ drawn = results
  /\ ~last.repeat
  /\ Len(lgLayers) = 2
  /\ Len(results) = 2

\* C3: a draw() on zero rows leaves the Results layer group empty and causes
\* no fitBounds call, neither inside draw() nor in the callback it scheduled.
C3_ZeroRowsNeverFit ==
  /\ (AfterDraw /\ last.rows = 0 => lgLayers = <<>> /\ ~Called("fitBounds"))
  /\ (last.op = "timer" /\ last.rows = 0 => ~Called("fitBounds"))

\* The geometry object a GeoJSON text {"type":"Point","coordinates":[x,y]}
\* denotes, or null when the text is not of that form.
ParsedGeoJSON(text) ==
  LET head == "{\"type\":\"Point\",\"coordinates\":["
  IN IF ~StartsWith(text, head) THEN NullGeometry
     ELSE LET x == ReadDigits(text, Len(head) + 1, 0, 0)
              y == ReadDigits(text, x.next + 1, 0, 0)
          IN IF /\ x.count > 0
                /\ CharAt(text, x.next) = ","
                /\ y.count > 0
                /\ SubSeq(text, y.next, Len(text)) = "]}"
             THEN Geometry("Point", <<x.val, y.val>>)
             ELSE NullGeometry

\* C4: the feature of a row whose geometry column is a GeoJSON literal
\* holding GeoJSON text has the parsed geometry object as its geometry.
C4_GeoJSONTextIsParsed ==
  AfterDraw =>
    \A k \in 1..Len(lgLayers) : \A i \in 1..Len(lgLayers[k]) :
      LET cell == results[i][geometryColumns[k].colName]
      IN (cell.datatype = GeoJSONLiteral /\ ParsedGeoJSON(cell.value).kind = "object")
           => lgLayers[k][i].feature.geometry = ParsedGeoJSON(cell.value)

\* C5: every feature collection built has one feature per row, in row
\* order, and the i-th feature's properties are the i-th row: every column,
\* the geometry column included, with its typed value.
C5_OneFeaturePerRowInOrder ==
  AfterDraw =>
    \A k \in 1..Len(lgLayers) :
      /\ Len(lgLayers[k]) = Len(results)
      /\ \A i \in 1..Len(results) :
           /\ lgLayers[k][i].feature.type = "Feature"
           /\ DOMAIN lgLayers[k][i].feature.properties = Cols
           /\ \A c \in Cols : lgLayers[k][i].feature.properties[c] = results[i][c]

C5_Witness ==
  /\ AfterDraw
  /\ Len(lgLayers) = 2
  /\ Len(results) = 2
  /\ results[1] # results[2]
  /\ lgLayers[1][2].feature.geometry = NullGeometry

\* A value of a recognized datatype that does not convert to a geometry.
FailsToConvert(cell) ==
  \/ cell.datatype \in {WktLiteral, VirtGeometry} /\ parseWKT(cell.value).kind # "object"
  \/ cell.datatype = GeoJSONLiteral /\ ParsedGeoJSON(cell.value).kind # "object"

\* C6: a value that fails to convert does not abort draw(): its row's
\* feature gets the empty point {type: Point, coordinates: []}, and every
\* row's feature is built and added to the Results layer group.
C6_FailedConversionIsEmptyPoint ==
  AfterDraw =>
    /\ Len(timers) > 0
    /\ \A k \in 1..Len(lgLayers) :
         /\ Len(lgLayers[k]) = Len(results)
         /\ \A i \in 1..Len(lgLayers[k]) :
              FailsToConvert(results[i][geometryColumns[k].colName])
                => lgLayers[k][i].feature.geometry = EmptyPoint

\* C7: a draw() on the result set the previous draw() read leaves the
\* Results layer group with the same features and geometries.
C7_RedrawIsIdempotent ==
  [][(draws' = draws + 1 /\ draws > 0 /\ drawn = results)
       => Geometries(lgLayers') = Geometries(lgLayers)]_vars

C7_Witness ==
  /\ AfterDraw
  /\ last.repeat
  /\ Len(lgLayers) = 2
  /\ Len(lgLayers[1]) = 2

\* The text a popup shows for a value: the value when it has at most 120
\* characters, else its first 120 characters and "...".
Shown(v) == IF Len(v) <= 120 THEN v ELSE SubSeq(v, 1, 120) \o "..."

\* C8: the popup of every feature lists every property with its value
\* verbatim up to 120 characters and cut to 120 characters plus "..." beyond.
C8_PopupTruncation ==
  AfterDraw =>
    \A k \in 1..Len(lgLayers) : \A i \in 1..Len(lgLayers[k]) :
      lgLayers[k][i].popup =
        Join([j \in 1..Len(ColumnOrder) |->
                "<b>" \o ColumnOrder[j] \o ":</b> "
                  \o Shown(lgLayers[k][i].feature.properties[ColumnOrder[j]].value)],
             "<br>")

C8_Witness ==
  /\ AfterDraw
  /\ Len(lgLayers) > 0
  /\ Len(lgLayers[1]) = 2
  /\ Len(lgLayers[1][1].feature.properties.place.value) = 120
  /\ Len(lgLayers[1][2].feature.properties.place.value) = 121

\* C9: the container, the map and the Results layer group are created
\* once, by the first draw(), and every later draw() holds those same
\* objects: uninitialized before the first draw, idle ever after.
C9_MapCreatedOnce ==
  /\ created = (IF draws = 0 THEN 0 ELSE 1)
  /\ draws = 0 => container = NoObject /\ map = NoObject /\ lg = NoObject
  /\ draws > 0 => container = 1 /\ map = 1 /\ lg = 1

C9_Witness == draws = 2 /\ created = 1 /\ map = 1

TimerDraws == [i \in 1..Len(timers) |-> timers[i].draw]

====
